---- MODULE Spec2Model ----
(***************************************************************************)
(* A model of bun-fastify-template: layered configuration loading          *)
(* (config.ts), the runtime log-level registry and category scopes         *)
(* (logger.ts), the log-level HTTP routes (server.ts) and the shutdown     *)
(* handler (index.ts).                                                     *)
(*                                                                         *)
(* JavaScript values are tagged records, so that values of different types *)
(* can be compared: [str |-> s] a string, [num |-> n] a number,            *)
(* [nan |-> TRUE] NaN, [undef |-> TRUE] undefined.  An object is a         *)
(* function from its keys to values.  Text that the code takes apart       *)
(* (PORT, category segments, log lines) is a sequence of one-character     *)
(* strings.                                                                *)
(***************************************************************************)
EXTENDS Integers, Sequences, FiniteSets, TLC

VARIABLES
    \* ---- process environment (inputs of main) ----
    env,            \* process.env: DB_PATH, HOST, PORT, LOG_LEVEL
    argv,           \* the --config and --database flags that were passed
    fs,             \* the file system: path -> file
    \* ---- main() ----
    pc,             \* position of main()
    envConfig,      \* result of loadConfigFromEnv
    cliOptions,     \* result of parseCliArgs
    config,         \* result of loadFullConfig
    warned,         \* console.warn was called by loadFullConfig
    exitCode,       \* process.exit code, -1 while the process runs
    \* ---- logger.ts ----
    currentLogLevel,    \* let currentLogLevel
    categoryLogLevels,  \* const categoryLogLevels: Map<string, LogLevel>
    active,             \* the configuration @logtape/logtape currently holds
    pending,            \* configure() calls whose promise has not settled
    emitted,            \* the log calls that reached the sink in the last step:
                        \* the record and the scopes that enclosed the call
    nCalls,             \* number of level-change requests made so far
    lastCall,           \* the level-change request made in the last step
    lastSet,            \* history: the level last passed to setLogLevel for each
                        \* category path, "unset" when there was none
    \* ---- server.ts / db.ts / shutdown ----
    server,             \* let server: FastifyInstance | null
    db,                 \* let db: Database | null
    reply,              \* the HTTP response sent in the last step
    build,              \* which server module is built: "part_001" or "server.ts"
    sd,                 \* the shutdown task: pc and async-local category prefix
    \* ---- startServer / stopServer / getServer called by any importer ----
    fastify,            \* the instances createServer() has made: the state of each
    serverInstance,     \* which of them let server holds, 0 for null
    apiCalls,           \* the calls of startServer, stopServer and getServer
    \* ---- transaction(fn) ----
    sql,                \* the statements executed on the database, in order
    tx                  \* the calls of transaction

cfgVars == <<env, argv, fs, pc, envConfig, cliOptions, config, warned, exitCode>>
inputs == <<env, argv, fs, build>>
logVars == <<currentLogLevel, categoryLogLevels, active, pending, emitted,
             nCalls, lastCall, lastSet>>
srvVars == <<server, db, reply, build, sd>>
registry == <<currentLogLevel, categoryLogLevels, pending, nCalls, lastSet>>
apiVars == <<fastify, serverInstance, apiCalls>>
txVars == <<sql, tx>>
vars == <<cfgVars, logVars, srvVars, apiVars, txVars>>

----------------------------------------------------------------------------
(* JavaScript values *)

Str(s) == [str |-> s]
Num(n) == [num |-> n]
NaN == [nan |-> TRUE]
Undefined == [undef |-> TRUE]
EmptyObj == [k \in {} |-> Undefined]

LeafTags == {"str", "num", "nan", "undef", "chars"}

\* typeof v === "object" && v !== null
IsObject(v) == DOMAIN v \cap LeafTags = {}
IsString(v) == "str" \in DOMAIN v
IsNumber(v) == "num" \in DOMAIN v \/ "nan" \in DOMAIN v

\* o[k] of a JavaScript object: undefined when the key is absent
Get(o, k) == IF IsObject(o) /\ k \in DOMAIN o THEN o[k] ELSE Undefined

\* JavaScript truthiness
Truthy(v) ==
    IF IsObject(v) THEN TRUE
    ELSE IF "str" \in DOMAIN v THEN v.str /= ""
    ELSE IF "chars" \in DOMAIN v THEN v.chars /= <<>>
    ELSE IF "num" \in DOMAIN v THEN v.num /= 0
    ELSE FALSE

\* the objects with at most the key k, its value drawn from S
Opt(k, S) == {EmptyObj} \cup {k :> v : v \in S}

----------------------------------------------------------------------------
(* config.ts *)

DEFAULT_CONFIG ==
    [database |-> [url |-> Str("app.db")],
     server   |-> [host |-> Str("0.0.0.0"), port |-> Num(3000)],
     log      |-> [level |-> Str("info")]]

Digits == {"0", "1", "2", "3", "4", "5", "6", "7", "8", "9"}

DigitOf(c) ==
    CASE c = "0" -> 0 [] c = "1" -> 1 [] c = "2" -> 2 [] c = "3" -> 3
      [] c = "4" -> 4 [] c = "5" -> 5 [] c = "6" -> 6 [] c = "7" -> 7
      [] c = "8" -> 8 [] c = "9" -> 9

\* the value of the longest run of decimal digits of s that starts at i,
\* acc being the value of the digits already read
RECURSIVE ReadDigits(_, _, _)
ReadDigits(s, i, acc) ==
    IF i <= Len(s) /\ s[i] \in Digits
    THEN ReadDigits(s, i + 1, acc * 10 + DigitOf(s[i]))
    ELSE acc

RECURSIVE SkipSpace(_, _)
SkipSpace(s, i) == IF i <= Len(s) /\ s[i] = " " THEN SkipSpace(s, i + 1) ELSE i

\* parseInt(s, 10): leading white space, an optional sign, then the longest
\* prefix of digits; NaN when there is no digit
ParseInt(s) ==
    LET i == SkipSpace(s, 1)
        neg == i <= Len(s) /\ s[i] = "-"
        j == IF i <= Len(s) /\ s[i] \in {"-", "+"} THEN i + 1 ELSE i
    IN  IF j <= Len(s) /\ s[j] \in Digits
        THEN Num(IF neg THEN 0 - ReadDigits(s, j, 0) ELSE ReadDigits(s, j, 0))
        ELSE NaN

\* loadConfigFromEnv() applied to the environment e
LoadConfigFromEnvOf(e) ==
    LET database == IF Truthy(e.DB_PATH)
                    THEN "database" :> ("url" :> e.DB_PATH) ELSE EmptyObj
        host == IF Truthy(e.HOST) THEN "host" :> e.HOST ELSE EmptyObj
        port == IF Truthy(e.PORT) THEN "port" :> ParseInt(e.PORT.chars) ELSE EmptyObj
        srv  == IF Truthy(e.HOST) \/ Truthy(e.PORT)
                THEN "server" :> (host @@ port) ELSE EmptyObj
        lg   == IF Truthy(e.LOG_LEVEL)
                THEN "log" :> ("level" :> e.LOG_LEVEL) ELSE EmptyObj
    IN  database @@ srv @@ lg

\* parseCliArgs(): a flag that was not passed takes its defaultValue
ParseCliArgsOf(a) ==
    [configFile |-> IF a.config = Undefined THEN Str("config.toml") ELSE a.config,
     database   |-> IF a.database = Undefined THEN Str("app.db") ELSE a.database]

\* the config.server object parseTomlFile builds from a [server] table: a key
\* of the wrong type or absent from the table takes the DEFAULT_CONFIG value
ServerOfToml(srv) ==
    [host |-> IF IsString(Get(srv, "host")) THEN srv.host
              ELSE DEFAULT_CONFIG.server.host,
     port |-> IF IsNumber(Get(srv, "port")) THEN srv.port
              ELSE DEFAULT_CONFIG.server.port]

\* parseTomlFile(path) for the file f: [threw |-> TRUE] when toml.parse throws
parseTomlFile(f) ==
    IF ~f.exists THEN [threw |-> FALSE, config |-> EmptyObj]
    ELSE IF ~f.valid THEN [threw |-> TRUE, config |-> EmptyObj]
    ELSE LET parsed == f.parsed
             database ==
                 IF IsObject(Get(parsed, "database"))
                    /\ IsString(Get(parsed.database, "url"))
                 THEN "database" :> ("url" :> parsed.database.url) ELSE EmptyObj
             srv ==
                 IF IsObject(Get(parsed, "server"))
                 THEN "server" :> ServerOfToml(parsed.server) ELSE EmptyObj
             lg ==
                 IF IsObject(Get(parsed, "log"))
                    /\ IsString(Get(parsed.log, "level"))
                 THEN "log" :> ("level" :> parsed.log.level) ELSE EmptyObj
         IN  [threw |-> FALSE, config |-> database @@ srv @@ lg]

\* deepMerge(defaultConfig, userConfig)
RECURSIVE deepMerge(_, _)
deepMerge(defaultConfig, userConfig) ==
    LET keys == DOMAIN defaultConfig
                \cup {k \in DOMAIN userConfig : userConfig[k] /= Undefined}
    IN  [key \in keys |->
            IF key \notin DOMAIN userConfig THEN defaultConfig[key]
            ELSE LET value == userConfig[key]
                     defaultValue == Get(defaultConfig, key)
                 IN  IF Truthy(value) /\ IsObject(value)
                        /\ Truthy(defaultValue) /\ IsObject(defaultValue)
                     THEN deepMerge(defaultValue, value)
                     ELSE IF value /= Undefined THEN value
                     ELSE defaultConfig[key]]

\* the configuration loadFullConfig has accumulated before it reads the file
BeforeFile(envCfg, cli) ==
    deepMerge(deepMerge(DEFAULT_CONFIG, envCfg),
              "database" :> ("url" :> cli.database))

\* the file configuration loadFullConfig merges: a parse failure is caught,
\* reported with console.warn and replaced by {}
FileConfigOf(f) ==
    IF parseTomlFile(f).threw THEN EmptyObj ELSE parseTomlFile(f).config

\* loadFullConfig(envConfig, cliOptions), the file system being files
loadFullConfig(envCfg, cli, files) ==
    deepMerge(BeforeFile(envCfg, cli), FileConfigOf(files[cli.configFile.str]))
    @@ ("cli" :> cli)

----------------------------------------------------------------------------
(* text *)

\* the concatenation of the sequences of ss
RECURSIVE Concat(_)
Concat(ss) == IF ss = <<>> THEN <<>> ELSE Head(ss) \o Concat(Tail(ss))

\* Array.prototype.join: the elements of parts with sep between them
RECURSIVE Join(_, _)
Join(parts, sep) ==
    IF parts = <<>> THEN <<>>
    ELSE IF Len(parts) = 1 THEN parts[1]
    ELSE parts[1] \o sep \o Join(Tail(parts), sep)

\* String.prototype.split for a one-character separator: the pieces of s
\* between the occurrences of c (a string without c is one piece)
RECURSIVE SplitFrom(_, _, _)
SplitFrom(s, c, piece) ==
    IF s = <<>> THEN <<piece>>
    ELSE IF Head(s) = c THEN <<piece>> \o SplitFrom(Tail(s), c, <<>>)
    ELSE SplitFrom(Tail(s), c, Append(piece, Head(s)))

Split(s, c) == SplitFrom(s, c, <<>>)

\* Array.prototype.filter((c) => c.length > 0)
NonEmptyOnly(parts) == SelectSeq(parts, LAMBDA x : Len(x) > 0)

\* String.prototype.toUpperCase on one character
UpperChar(c) ==
    CASE c = "a" -> "A" [] c = "b" -> "B" [] c = "d" -> "D" [] c = "e" -> "E"
      [] c = "f" -> "F" [] c = "g" -> "G" [] c = "i" -> "I" [] c = "l" -> "L"
      [] c = "n" -> "N" [] c = "o" -> "O" [] c = "r" -> "R" [] c = "t" -> "T"
      [] c = "u" -> "U" [] c = "w" -> "W" [] OTHER -> c

toUpperCase(s) == [i \in 1..Len(s) |-> UpperChar(s[i])]

\* the decimal digits of n >= 0, at least width of them (padStart with "0")
DigitChar(d) ==
    CASE d = 0 -> "0" [] d = 1 -> "1" [] d = 2 -> "2" [] d = 3 -> "3"
      [] d = 4 -> "4" [] d = 5 -> "5" [] d = 6 -> "6" [] d = 7 -> "7"
      [] d = 8 -> "8" [] d = 9 -> "9"

RECURSIVE Pad(_, _)
Pad(n, width) ==
    IF width <= 1 /\ n < 10 THEN <<DigitChar(n)>>
    ELSE Append(Pad(n \div 10, width - 1), DigitChar(n % 10))

\* the characters of a level name
LevelChars(level) ==
    CASE level = "debug" -> <<"d", "e", "b", "u", "g">>
      [] level = "info" -> <<"i", "n", "f", "o">>
      [] level = "warning" -> <<"w", "a", "r", "n", "i", "n", "g">>
      [] level = "error" -> <<"e", "r", "r", "o", "r">>
      [] level = "fatal" -> <<"f", "a", "t", "a", "l">>
      [] OTHER -> <<"b", "o", "g", "u", "s">>

----------------------------------------------------------------------------
(* logger.ts *)

\* bounds of the model
MaxCalls == 2
MaxSignals == 2
MaxCallers == 3
MaxTx == 2

validLevels == {"debug", "info", "warning", "error", "fatal"}

LevelRank(level) ==
    CASE level = "debug" -> 0 [] level = "info" -> 1 [] level = "warning" -> 2
      [] level = "error" -> 3 [] level = "fatal" -> 4

\* Date.prototype.toISOString for an instant of January 1970, in milliseconds
toISOString(ms) ==
    LET day == ms \div 86400000 + 1
        rest == ms % 86400000
        hh == rest \div 3600000
        mm == (rest % 3600000) \div 60000
        ss == (rest % 60000) \div 1000
        mmm == rest % 1000
    IN  <<"1", "9", "7", "0", "-", "0", "1", "-">> \o Pad(day, 2) \o <<"T">> \o Pad(hh, 2) \o <<":">>
        \o Pad(mm, 2) \o <<":">> \o Pad(ss, 2) \o <<".">> \o Pad(mmm, 3) \o <<"Z">>

\* String(v) of a message part: a string is itself, a number its decimal digits
StringOf(v) ==
    IF "chars" \in DOMAIN v THEN v.chars
    ELSE IF "str" \in DOMAIN v THEN <<v.str>>
    ELSE IF "nan" \in DOMAIN v THEN <<"N", "a", "N">>
    ELSE IF "num" \in DOMAIN v
         THEN (IF v.num < 0 THEN <<"-">> \o Pad(0 - v.num, 1) ELSE Pad(v.num, 1))
    ELSE IF IsObject(v) THEN <<"[", "o", "b", "j", "e", "c", "t", " ", "O", "b", "j", "e", "c", "t", "]">>
    ELSE <<"u", "n", "d", "e", "f", "i", "n", "e", "d">>

\* customFormatter with the level left in lower case
customFormatter_LowerCase(record) ==
    toISOString(record.timestamp) \o <<"|">> \o LevelChars(record.level) \o <<"|">>
    \o (IF Len(record.category) > 0
        THEN Join(record.category, <<",">>) ELSE <<"-">>)
    \o <<"|">>
    \o Concat([i \in 1..Len(record.message) |-> StringOf(record.message[i])])

\* customFormatter(record)
customFormatter(record) ==
    LET timestamp == toISOString(record.timestamp)
        level == toUpperCase(LevelChars(record.level))
        tags == IF Len(record.category) > 0
                THEN Join(record.category, <<",">>) ELSE <<"-">>
        message == Concat([i \in 1..Len(record.message) |->
                              StringOf(record.message[i])])
    IN  timestamp \o <<"|">> \o level \o <<"|">> \o tags \o <<"|">> \o message

\* categoryToKey(category)
categoryToKey(category) == Join(category, <<",">>)

\* Map.prototype.set on the insertion-ordered map m (a sequence of entries)
MapHas(m, key) == \E i \in 1..Len(m) : m[i].key = key
MapGet(m, key) == m[CHOOSE i \in 1..Len(m) : m[i].key = key].level
MapSet(m, key, level) ==
    IF MapHas(m, key)
    THEN [i \in 1..Len(m) |-> IF m[i].key = key
                              THEN [key |-> key, level |-> level] ELSE m[i]]
    ELSE Append(m, [key |-> key, level |-> level])

\* category && category.length > 0, args being the arguments after level
HasCategory(args) == "category" \in DOMAIN args /\ Len(args.category) > 0

\* the loggers array setLogLevel builds from the registry
LoggersConfig(level, map) ==
    <<[category |-> <<>>, lowestLevel |-> level]>>
    \o [i \in 1..Len(map) |->
           [category |-> NonEmptyOnly(Split(map[i].key, ",")),
            lowestLevel |-> map[i].level]]

\* the configuration object setLogLevel passes to configure(): reset is set,
\* contextLocalStorage is not
ReconfigureArg(level, map) ==
    [loggers |-> LoggersConfig(level, map), cls |-> FALSE]

\* the configuration object initLogger passes to configure()
InitConfigureArg(level) ==
    [loggers |-> <<[category |-> <<>>, lowestLevel |-> level]>>, cls |-> TRUE]

\* the registry after setLogLevel(level, ...args)
NewCurrentLogLevel(level, args) ==
    IF HasCategory(args) THEN currentLogLevel ELSE level

NewCategoryLogLevels(level, args) ==
    IF HasCategory(args)
    THEN MapSet(categoryLogLevels, categoryToKey(args.category), level)
    ELSE categoryLogLevels

\* setLogLevel(level, category): the registry is written and configure() is
\* called; its promise settles later (ConfigureSettle)
setLogLevel(level, args) ==
    /\ currentLogLevel' = NewCurrentLogLevel(level, args)
    /\ categoryLogLevels' = NewCategoryLogLevels(level, args)
    /\ pending' = Append(pending,
                    ReconfigureArg(NewCurrentLogLevel(level, args),
                                   NewCategoryLogLevels(level, args)))
    /\ lastSet' = IF HasCategory(args)
                  THEN [lastSet EXCEPT ![args.category] = level] ELSE lastSet

\* getLogLevel()
getLogLevel == currentLogLevel

----------------------------------------------------------------------------
(* @logtape/logtape as logger.ts uses it.  cfg is the configuration the     *)
(* library holds: configured, loggers (category and lowestLevel of each     *)
(* entry, in the order given) and cls, whether a contextLocalStorage was    *)
(* passed to the configure() call that installed it.                        *)

Unconfigured == [configured |-> FALSE, loggers |-> <<>>, cls |-> FALSE]

\* configure(arg) once its promise has resolved: with reset, the previous
\* configuration is dropped and arg installed whole
Installed(arg) == [configured |-> TRUE, loggers |-> arg.loggers, cls |-> arg.cls]

\* the category prefix a log call reads from the context-local storage: ctx
\* is the prefix stored for the running task; without storage there is none
getCategoryPrefix(cfg, ctx) == IF cfg.cls THEN ctx ELSE <<>>

\* withLogTag(prefix, callback): the prefix the callback's task carries.  The
\* callback runs with the enclosing prefix followed by prefix; without a
\* context-local storage the callback is run as it is
withLogTag(cfg, ctx, prefix) ==
    IF cfg.cls THEN getCategoryPrefix(cfg, ctx) \o prefix ELSE ctx

\* the lowestLevel that governs category: the entry for exactly that
\* category when there is one (the last, were it given twice), else the
\* entry of the empty category
HasEntry(cfg, category) ==
    \E i \in 1..Len(cfg.loggers) : cfg.loggers[i].category = category

LastEntry(cfg, category) ==
    cfg.loggers[CHOOSE i \in 1..Len(cfg.loggers) :
                    /\ cfg.loggers[i].category = category
                    /\ \A j \in (i + 1)..Len(cfg.loggers) :
                          cfg.loggers[j].category /= category]

EffectiveLevel(cfg, category) ==
    IF HasEntry(cfg, category) THEN LastEntry(cfg, category).lowestLevel
    ELSE LastEntry(cfg, <<>>).lowestLevel

\* whether a log call at level in category reaches the sink; a lowestLevel
\* that is no level of the library decides nothing the code fixes: lax
Passes(cfg, category, level, lax) ==
    /\ cfg.configured
    /\ IF EffectiveLevel(cfg, category) \in validLevels
       THEN LevelRank(level) >= LevelRank(EffectiveLevel(cfg, category))
       ELSE lax

\* logger.<level>(message) made by a task whose stored prefix is ctx, inside
\* the scopes (outermost first) that enclose the call
Call(ctx, scopes, level, message) ==
    [ctx |-> ctx, scopes |-> scopes, level |-> level, message |-> message]

RecordOf(cfg, call, ts) ==
    [timestamp |-> ts, level |-> call.level,
     category |-> getCategoryPrefix(cfg, call.ctx), message |-> call.message]

\* the log calls of calls that reach the sink, in order
RECURSIVE Emit(_, _, _, _)
Emit(cfg, calls, ts, lax) ==
    IF calls = <<>> THEN <<>>
    ELSE LET r == RecordOf(cfg, Head(calls), ts)
         IN  (IF Passes(cfg, r.category, r.level, lax)
              THEN <<[record |-> r, scopes |-> Head(calls).scopes]>>
              ELSE <<>>)
             \o Emit(cfg, Tail(calls), ts, lax)

\* the console sink: (record) => console.log(customFormatter(record))
Sink(ems) == [i \in 1..Len(ems) |-> customFormatter(ems[i].record)]

\* the instants of the log calls
Timestamps == {90061001}

\* a step that makes the log calls calls
Logs(calls) ==
    \E ts \in Timestamps, lax \in BOOLEAN :
        emitted' = Emit(active, calls, ts, lax)

NoLogs == emitted' = <<>>

\* what the last step wrote to the console
console == Sink(emitted)

NoCall == [surface |-> "none"]
NoReply == [status |-> 0]

\* category segments
S_app == <<"a", "p", "p">>
S_db == <<"d", "b">>
S_server == <<"s", "e", "r", "v", "e", "r">>
S_health == <<"h", "e", "a", "l", "t", "h">>
S_api == <<"a", "p", "i">>
S_log == <<"l", "o", "g">>
S_app_db == <<"a", "p", "p", ",", "d", "b">>
S_empty == <<>>

\* message texts
Text(chars) == [chars |-> chars]
M_starting == <<Text(<<"A", "p", "p", "l", "i", "c", "a", "t", "i", "o", "n", " ", "s", "t", "a", "r", "t", "i", "n", "g", ".", ".", ".">>)>>
M_config == <<Text(<<"C", "o", "n", "f", "i", "g", " ", "l", "o", "a", "d", "e", "d", ":", " ">>), [obj |-> TRUE], Text(<<>>)>>
M_dbTables == <<Text(<<"D", "a", "t", "a", "b", "a", "s", "e", " ", "t", "a", "b", "l", "e", "s", " ", "c", "r", "e", "a", "t", "e", "d", "/", "v", "e", "r", "i", "f", "i", "e", "d">>)>>
M_dbInit(path) == <<Text(<<"D", "a", "t", "a", "b", "a", "s", "e", " ", "i", "n", "i", "t", "i", "a", "l", "i", "z", "e", "d", ":", " ">>), path, Text(<<>>)>>
M_listening(host, port) ==
    <<Text(<<"S", "e", "r", "v", "e", "r", " ", "l", "i", "s", "t", "e", "n", "i", "n", "g", " ", "o", "n", " ">>), host, Text(<<":">>), port, Text(<<>>)>>
M_started == <<Text(<<"A", "p", "p", "l", "i", "c", "a", "t", "i", "o", "n", " ", "s", "t", "a", "r", "t", "e", "d", " ", "s", "u", "c", "c", "e", "s", "s", "f", "u", "l", "l", "y">>)>>
M_startFailed == <<Text(<<"F", "a", "i", "l", "e", "d", " ", "t", "o", " ", "s", "t", "a", "r", "t", " ", "s", "e", "r", "v", "e", "r", ":", " ">>), Text(<<"E", "A", "D", "D", "R", "I", "N", "U", "S", "E">>), Text(<<>>)>>
M_health == <<Text(<<"H", "e", "a", "l", "t", "h", " ", "c", "h", "e", "c", "k", " ", "s", "t", "a", "r", "t", "e", "d">>)>>
M_checkDb == <<Text(<<"C", "h", "e", "c", "k", "i", "n", "g", " ", "d", "a", "t", "a", "b", "a", "s", "e", " ", "c", "o", "n", "n", "e", "c", "t", "i", "o", "n", ".", ".", ".">>)>>
M_checkCache == <<Text(<<"C", "h", "e", "c", "k", "i", "n", "g", " ", "c", "a", "c", "h", "e", " ", "c", "o", "n", "n", "e", "c", "t", "i", "o", "n", ".", ".", ".">>)>>
M_healthDone ==
    <<Text(<<"H", "e", "a", "l", "t", "h", " ", "c", "h", "e", "c", "k", " ", "c", "o", "m", "p", "l", "e", "t", "e", "d", ":", " ">>), Text(<<"o", "k">>), Text(<<",", " ">>), Text(<<"o", "k">>), Text(<<>>)>>
M_hello == <<Text(<<"H", "e", "l", "l", "o", " ", "e", "n", "d", "p", "o", "i", "n", "t", " ", "c", "a", "l", "l", "e", "d">>)>>
M_changed(old, new, category) ==
    <<Text(<<"L", "o", "g", " ", "l", "e", "v", "e", "l", " ", "c", "h", "a", "n", "g", "e", "d", ":", " ">>), Text(LevelChars(old)), Text(<<" ", "-", ">", " ">>),
      Text(LevelChars(new)), Text(<<" ">>), Text(category), Text(<<>>)>>
M_changedGlobal(old, new) ==
    <<Text(<<"L", "o", "g", " ", "l", "e", "v", "e", "l", " ", "c", "h", "a", "n", "g", "e", "d", ":", " ">>), Text(LevelChars(old)), Text(<<" ", "-", ">", " ">>),
      Text(LevelChars(new)), Text(<<>>)>>
M_received(signal) ==
    <<Text(<<"R", "e", "c", "e", "i", "v", "e", "d", " ">>), Text(signal), Text(<<",", " ", "s", "h", "u", "t", "t", "i", "n", "g", " ", "d", "o", "w", "n", ".", ".", ".">>)>>
M_stopped == <<Text(<<"S", "e", "r", "v", "e", "r", " ", "s", "t", "o", "p", "p", "e", "d">>)>>
M_dbClosed == <<Text(<<"D", "a", "t", "a", "b", "a", "s", "e", " ", "c", "o", "n", "n", "e", "c", "t", "i", "o", "n", " ", "c", "l", "o", "s", "e", "d">>)>>
M_graceful == <<Text(<<"A", "p", "p", "l", "i", "c", "a", "t", "i", "o", "n", " ", "s", "h", "u", "t", " ", "d", "o", "w", "n", " ", "g", "r", "a", "c", "e", "f", "u", "l", "l", "y">>)>>
M_shutdownError ==
    <<Text(<<"E", "r", "r", "o", "r", " ", "d", "u", "r", "i", "n", "g", " ", "s", "h", "u", "t", "d", "o", "w", "n", ":", " ">>), Text(<<"c", "l", "o", "s", "e", " ", "f", "a", "i", "l", "e", "d">>), Text(<<>>)>>
SIGINT == <<"S", "I", "G", "I", "N", "T">>
SIGTERM == <<"S", "I", "G", "T", "E", "R", "M">>

----------------------------------------------------------------------------
(* inputs *)

Chars(s) == [chars |-> s]

EnvPorts == {Chars(<<"4", "0", "0", "0">>), Chars(<<"0">>), Chars(<<"a", "b", "c">>),
             Chars(<<"7", "0", "0", "0", "0">>), Chars(<<>>)}

Envs ==
    [DB_PATH : {Undefined, Str("env.db")},
     HOST : {Undefined, Str(""), Str("envhost")},
     PORT : {Undefined} \cup EnvPorts,
     LOG_LEVEL : {Undefined, Str("debug")}]

Argvs ==
    [config : {Undefined, Str("other.toml")},
     database : {Undefined, Str("cli.db")}]

\* the tables a parsed TOML file may hold; a key may be absent or hold a
\* value of the wrong type
TomlDatabase == Opt("url", {Str("file.db"), Num(2)})
TomlServer ==
    {Num(1)} \cup
    {h @@ p : h \in Opt("host", {Str("filehost")}),
              p \in Opt("port", {Num(9000), Num(70000), Str("9000")})}
TomlLog == {"level" :> Str("error")}

TomlObjects ==
    {d @@ s @@ l : d \in Opt("database", TomlDatabase),
                   s \in Opt("server", TomlServer),
                   l \in Opt("log", TomlLog)}

Missing == [exists |-> FALSE, valid |-> FALSE, parsed |-> EmptyObj]
Malformed == [exists |-> TRUE, valid |-> FALSE, parsed |-> EmptyObj]
Parsed(o) == [exists |-> TRUE, valid |-> TRUE, parsed |-> o]

Files == {Missing, Malformed} \cup {Parsed(o) : o \in TomlObjects}

\* the file systems: config.toml is any file, other.toml is missing or
\* cannot be parsed
FileSystems ==
    {("config.toml" :> f) @@ ("other.toml" :> g) :
        f \in Files, g \in {Missing, Malformed}}

InputLevels == {"debug", "error", "bogus"}

\* the category arguments of a level-change request
Categories ==
    {<<S_app, S_db>>, <<S_app_db>>, <<S_empty>>, <<>>}

Tasks == 1..MaxSignals

\* the callers of startServer, stopServer and getServer: each makes one call
Callers == 1..MaxCallers
NotCalled == [op |-> "none", pc |-> "idle", srv |-> 0, result |-> 0]

\* the calls of transaction
Transactions == 1..MaxTx
NotBegun == [pc |-> "idle", fn |-> "none", result |-> "none", error |-> "none"]

\* the repository holds two versions of the server module
Builds == {"part_001", "server.ts"}

----------------------------------------------------------------------------
(* initial states *)

LoggerInit ==
    /\ currentLogLevel = "info"
    /\ categoryLogLevels = <<>>
    /\ active = Unconfigured
    /\ pending = <<>>
    /\ emitted = <<>>
    /\ nCalls = 0
    /\ lastCall = NoCall
    /\ lastSet = [c \in Categories \ {<<>>} |-> "unset"]

ServerInit ==
    /\ server = "null"
    /\ db = "null"
    /\ reply = NoReply
    /\ build \in Builds
    /\ sd = [t \in Tasks |-> [pc |-> "idle", ctx |-> <<>>, inner |-> <<>>]]
    /\ fastify = <<>>
    /\ serverInstance = 0
    /\ apiCalls = [c \in Callers |-> NotCalled]
    /\ sql = <<>>
    /\ tx = [k \in Transactions |-> NotBegun]

\* the process starts: nothing is loaded
InitConfig ==
    /\ env \in Envs
    /\ argv \in Argvs
    /\ fs \in FileSystems
    /\ pc = "start"
    /\ envConfig = EmptyObj
    /\ cliOptions = EmptyObj
    /\ config = EmptyObj
    /\ warned = FALSE
    /\ exitCode = -1
    /\ LoggerInit
    /\ ServerInit

\* main() has loaded the configuration of a process started without flags
\* and without a config file
Init ==
    /\ env \in [DB_PATH : {Undefined}, HOST : {Undefined}, PORT : {Undefined},
                LOG_LEVEL : {Undefined, Str("debug")}]
    /\ argv = [config |-> Undefined, database |-> Undefined]
    /\ fs = ("config.toml" :> Missing) @@ ("other.toml" :> Missing)
    /\ pc = "config"
    /\ envConfig = LoadConfigFromEnvOf(env)
    /\ cliOptions = ParseCliArgsOf(argv)
    /\ config = loadFullConfig(LoadConfigFromEnvOf(env), ParseCliArgsOf(argv), fs)
    /\ warned = FALSE
    /\ exitCode = -1
    /\ LoggerInit
    /\ ServerInit

----------------------------------------------------------------------------
(* main() *)

Running == exitCode = -1

\* a step that calls no route and makes no level-change request
NoRequest == lastCall' = NoCall /\ reply' = NoReply

\* const envConfig = loadConfigFromEnv()
MainLoadConfigFromEnv ==
    /\ Running /\ pc = "start"
    /\ envConfig' = LoadConfigFromEnvOf(env)
    /\ pc' = "env"
    /\ NoLogs /\ NoRequest
    /\ UNCHANGED <<inputs, cliOptions, config, warned, exitCode, registry, active,
                   server, db, sd>>
    /\ UNCHANGED <<apiVars, txVars>>

\* const cliOptions = await parseCliArgs()
MainParseCliArgs ==
    /\ Running /\ pc = "env"
    /\ cliOptions' = ParseCliArgsOf(argv)
    /\ pc' = "cli"
    /\ NoLogs /\ NoRequest
    /\ UNCHANGED <<inputs, envConfig, config, warned, exitCode, registry, active,
                   server, db, sd>>
    /\ UNCHANGED <<apiVars, txVars>>

\* const config = await loadFullConfig(envConfig, cliOptions)
MainLoadFullConfig ==
    /\ Running /\ pc = "cli"
    /\ config' = loadFullConfig(envConfig, cliOptions, fs)
    /\ warned' = parseTomlFile(fs[cliOptions.configFile.str]).threw
    /\ pc' = "config"
    /\ NoLogs /\ NoRequest
    /\ UNCHANGED <<inputs, envConfig, cliOptions, exitCode, registry, active,
                   server, db, sd>>
    /\ UNCHANGED <<apiVars, txVars>>

\* await initLogger(config.log.level), then the two logger.info calls
MainInitLogger ==
    /\ Running /\ pc = "config"
    /\ currentLogLevel' = config.log.level.str
    /\ active' = Installed(InitConfigureArg(config.log.level.str))
    /\ \E ts \in Timestamps, lax \in BOOLEAN :
          emitted' = Emit(active', <<Call(<<>>, <<>>, "info", M_starting),
                                     Call(<<>>, <<>>, "info", M_config)>>, ts, lax)
    /\ pc' = "logger"
    /\ NoRequest
    /\ UNCHANGED <<inputs, envConfig, cliOptions, config, warned, exitCode,
                   categoryLogLevels, pending, nCalls, lastSet, server, db, sd>>
    /\ UNCHANGED <<apiVars, txVars>>

\* getDbPath()
getDbPath == IF Truthy(env.DB_PATH) THEN env.DB_PATH ELSE Str("./data/app.db")

\* initDb()
MainInitDb ==
    /\ Running /\ pc = "logger"
    /\ db' = "open"
    /\ LET ctx == withLogTag(active, <<>>, <<S_db>>)
       IN  Logs(<<Call(ctx, <<(<<S_db>>)>>, "debug", M_dbTables),
                  Call(ctx, <<(<<S_db>>)>>, "info", M_dbInit(getDbPath))>>)
    /\ pc' = "db"
    /\ NoRequest
    /\ UNCHANGED <<inputs, envConfig, cliOptions, config, warned, exitCode,
                   registry, active, server, sd>>
    /\ UNCHANGED <<apiVars, txVars>>

\* the prefix and the scopes of startServer's and stopServer's log calls: the
\* server.ts version wraps their bodies in a ["server"] scope
ServerCtx(ctx) ==
    IF build = "server.ts" THEN withLogTag(active, ctx, <<S_server>>) ELSE ctx
ServerScopes(scopes) ==
    IF build = "server.ts" THEN Append(scopes, <<S_server>>) ELSE scopes

\* const HOST = process.env.HOST || "0.0.0.0"
HOST == IF Truthy(env.HOST) THEN env.HOST ELSE Str("0.0.0.0")
\* const PORT = parseInt(process.env.PORT || "3000", 10)
PORT == IF Truthy(env.PORT) THEN ParseInt(env.PORT.chars) ELSE Num(3000)

\* await startServer(): listen resolves; then the signal handlers are set
MainStartServer ==
    /\ Running /\ pc = "db"
    /\ server' = "listening"
    /\ Logs(<<Call(ServerCtx(<<>>), ServerScopes(<<>>), "info", M_listening(HOST, PORT)),
              Call(ServerCtx(<<>>), ServerScopes(<<>>), "info", M_started)>>)
    /\ pc' = "running"
    /\ NoRequest
    /\ UNCHANGED <<inputs, envConfig, cliOptions, config, warned, exitCode,
                   registry, active, db, sd>>
    /\ UNCHANGED <<apiVars, txVars>>

\* await startServer(): listen rejects, startServer rethrows and main's
\* catch handler exits with code 1
MainStartServerFails ==
    /\ Running /\ pc = "db"
    /\ Logs(<<Call(ServerCtx(<<>>), ServerScopes(<<>>), "error", M_startFailed)>>)
    /\ exitCode' = 1
    /\ NoRequest
    /\ UNCHANGED <<inputs, pc, envConfig, cliOptions, config, warned, registry,
                   active, server, db, sd>>
    /\ UNCHANGED <<apiVars, txVars>>

----------------------------------------------------------------------------
(* the routes of createServer() *)

Serving == Running /\ pc = "running" /\ server = "listening"

\* what a route that is no level-change request leaves alone
RouteFrame ==
    /\ lastCall' = NoCall
    /\ UNCHANGED <<cfgVars, build, registry, active, server, db, sd>>
    /\ UNCHANGED <<apiVars, txVars>>

\* GET /health
Health ==
    /\ Serving
    /\ LET ctx == withLogTag(active, <<>>, <<S_health>>)
           sc == <<(<<S_health>>)>>
       IN  Logs(<<Call(ctx, sc, "info", M_health), Call(ctx, sc, "info", M_checkDb),
                  Call(ctx, sc, "info", M_checkCache),
                  Call(ctx, sc, "info", M_healthDone)>>)
    /\ reply' = [status |-> 200, body |-> [status |-> "ok"]]
    /\ RouteFrame

\* GET /api/hello
Hello ==
    /\ Serving
    /\ Logs(<<Call(withLogTag(active, <<>>, <<S_api>>), <<(<<S_api>>)>>, "info",
                   M_hello)>>)
    /\ reply' = [status |-> 200, body |-> [message |-> "Hello, world!"]]
    /\ RouteFrame

\* GET /api/log-level
GetLogLevel ==
    /\ Serving
    /\ reply' = [status |-> 200, body |-> [level |-> getLogLevel]]
    /\ NoLogs
    /\ RouteFrame

\* the request bodies: level and category may each be absent
Bodies ==
    {l @@ c : l \in Opt("level", InputLevels \cup {""}),
              c \in Opt("category", Categories)}

\* the arguments the handler passes to setLogLevel after level: the
\* part_001 version passes body.category when it is a non-empty array, the
\* server.ts version never passes a category
RouteArgs(body) ==
    IF build = "part_001" /\ HasCategory(body)
    THEN "category" :> body.category ELSE EmptyObj

\* the scope of the handler
RouteScope == IF build = "part_001" THEN <<S_log>> ELSE <<S_server>>

\* the message of the handler's log call
RouteMessage(old, body) ==
    IF build = "part_001"
    THEN M_changed(old, body.level,
                   IF HasCategory(RouteArgs(body))
                   THEN <<"(">> \o Join(body.category, <<",">>) \o <<")">>
                   ELSE <<"(", "g", "l", "o", "b", "a", "l", ")">>)
    ELSE M_changedGlobal(old, body.level)

\* the body of the 200 response: oldLevel is what getLogLevel() returned
\* before the change
RouteReply(old, body) ==
    IF build = "part_001"
    THEN [success |-> TRUE, oldLevel |-> old, newLevel |-> body.level,
          category |-> IF HasCategory(RouteArgs(body))
                       THEN [path |-> body.category] ELSE Str("global")]
    ELSE [success |-> TRUE, oldLevel |-> old, newLevel |-> body.level]

\* POST /api/log-level
PostLogLevel ==
    /\ Serving /\ nCalls < MaxCalls
    /\ \E body \in Bodies :
          /\ nCalls' = nCalls + 1
          /\ lastCall' = [surface |-> "POST", args |-> body]
          /\ IF ~("level" \in DOMAIN body /\ body.level /= "")
             THEN /\ reply' = [status |-> 400, error |-> "missing"]
                  /\ NoLogs
                  /\ UNCHANGED <<currentLogLevel, categoryLogLevels, pending, lastSet>>
             ELSE IF body.level \notin validLevels
             THEN /\ reply' = [status |-> 400, error |-> "invalid"]
                  /\ NoLogs
                  /\ UNCHANGED <<currentLogLevel, categoryLogLevels, pending, lastSet>>
             ELSE /\ setLogLevel(body.level, RouteArgs(body))
                  /\ Logs(<<Call(withLogTag(active, <<>>, RouteScope),
                                 <<RouteScope>>, "info",
                                 RouteMessage(getLogLevel, body))>>)
                  /\ reply' = [status |-> 200, body |-> RouteReply(getLogLevel, body)]
    /\ UNCHANGED <<cfgVars, build, active, server, db, sd>>
    /\ UNCHANGED <<apiVars, txVars>>

\* setLogLevel(level, category) called by any importer of logger.ts
SetLogLevel ==
    /\ Running /\ pc = "running" /\ nCalls < MaxCalls
    /\ \E level \in InputLevels, args \in Opt("category", Categories) :
          /\ setLogLevel(level, args)
          /\ lastCall' = [surface |-> "call", args |-> ("level" :> level) @@ args]
    /\ nCalls' = nCalls + 1
    /\ NoLogs
    /\ reply' = NoReply
    /\ UNCHANGED <<cfgVars, build, active, server, db, sd>>
    /\ UNCHANGED <<apiVars, txVars>>

\* the promise of the oldest unsettled configure() call resolves
ConfigureSettle ==
    /\ Running /\ pending /= <<>>
    /\ active' = Installed(Head(pending))
    /\ pending' = Tail(pending)
    /\ NoLogs /\ NoRequest
    /\ UNCHANGED <<cfgVars, build, currentLogLevel, categoryLogLevels, nCalls,
                   lastSet, server, db, sd>>
    /\ UNCHANGED <<apiVars, txVars>>

----------------------------------------------------------------------------
(* shutdown(signal): sd[t] is the t-th run of the handler, ctx the prefix   *)
(* its task carries inside the ["app"] scope and inner the prefix inside    *)
(* stopServer                                                               *)

\* shutdown(signal) with stopServer() called but not awaited
Shutdown_NotAwaited(t) ==
    /\ Running /\ pc = "running"
    /\ sd[t].pc = "idle"
    /\ \A u \in Tasks : u < t => sd[u].pc /= "idle"
    /\ \E signal \in {SIGINT, SIGTERM} :
          LET ctx == withLogTag(active, <<>>, <<S_app>>)
          IN  /\ Logs(<<Call(ctx, <<(<<S_app>>)>>, "info", M_received(signal))>>)
              /\ sd' = [sd EXCEPT ![t] =
                          [pc |-> "stopped", ctx |-> ctx, inner |-> ServerCtx(ctx)]]
    /\ NoRequest
    /\ UNCHANGED <<cfgVars, build, registry, active, server, db>>
    /\ UNCHANGED <<apiVars, txVars>>

\* a signal arrives: the handler logs, calls stopServer and awaits it
Shutdown(t) ==
    /\ Running /\ pc = "running"
    /\ sd[t].pc = "idle"
    /\ \A u \in Tasks : u < t => sd[u].pc /= "idle"
    /\ \E signal \in {SIGINT, SIGTERM} :
          LET ctx == withLogTag(active, <<>>, <<S_app>>)
          IN  /\ Logs(<<Call(ctx, <<(<<S_app>>)>>, "info", M_received(signal))>>)
              /\ sd' = [sd EXCEPT ![t] =
                          [pc |-> IF server /= "null" THEN "closing" ELSE "stopped",
                           ctx |-> ctx, inner |-> ServerCtx(ctx)]]
    /\ NoRequest
    /\ UNCHANGED <<cfgVars, build, registry, active, server, db>>
    /\ UNCHANGED <<apiVars, txVars>>

\* await server.close() resolves: stopServer clears server, logs and returns
StopServerDone(t) ==
    /\ Running /\ sd[t].pc = "closing"
    /\ server' = "null"
    /\ Logs(<<Call(sd[t].inner, ServerScopes(<<(<<S_app>>)>>), "info", M_stopped)>>)
    /\ sd' = [sd EXCEPT ![t].pc = "stopped"]
    /\ NoRequest
    /\ UNCHANGED <<cfgVars, build, registry, active, db>>
    /\ UNCHANGED <<apiVars, txVars>>

\* await stopServer() resolves: closeDb(), the last log call, process.exit(0)
ShutdownFinish(t) ==
    /\ Running /\ sd[t].pc = "stopped"
    /\ db' = "null"
    /\ Logs((IF db /= "null"
             THEN <<Call(withLogTag(active, sd[t].ctx, <<S_db>>),
                         <<(<<S_app>>), (<<S_db>>)>>, "info", M_dbClosed)>>
             ELSE <<>>)
            \o <<Call(sd[t].ctx, <<(<<S_app>>)>>, "info", M_graceful)>>)
    /\ exitCode' = 0
    /\ sd' = [sd EXCEPT ![t].pc = "done"]
    /\ NoRequest
    /\ UNCHANGED <<inputs, pc, envConfig, cliOptions, config, warned, registry,
                   active, server>>
    /\ UNCHANGED <<apiVars, txVars>>

\* await server.close() rejects: the catch block logs and exits with code 1
ShutdownFails(t) ==
    /\ Running /\ sd[t].pc = "closing"
    /\ Logs(<<Call(sd[t].ctx, <<(<<S_app>>)>>, "error", M_shutdownError)>>)
    /\ exitCode' = 1
    /\ sd' = [sd EXCEPT ![t].pc = "failed"]
    /\ NoRequest
    /\ UNCHANGED <<inputs, pc, envConfig, cliOptions, config, warned, registry,
                   active, server, db>>
    /\ UNCHANGED <<apiVars, txVars>>

----------------------------------------------------------------------------
(* specifications *)

\* the process from the loaded configuration on
Next ==
    \/ MainInitLogger
    \/ MainInitDb
    \/ MainStartServer
    \/ MainStartServerFails
    \/ Health
    \/ Hello
    \/ GetLogLevel
    \/ PostLogLevel
    \/ SetLogLevel
    \/ ConfigureSettle
    \/ \E t \in Tasks : Shutdown(t)
    \/ \E t \in Tasks : StopServerDone(t)
    \/ \E t \in Tasks : ShutdownFinish(t)
    \/ \E t \in Tasks : ShutdownFails(t)

Spec == Init /\ [][Next]_vars

\* startup: the configuration is loaded and the components initialized
NextConfig ==
    \/ MainLoadConfigFromEnv
    \/ MainParseCliArgs
    \/ MainLoadFullConfig
    \/ MainInitLogger
    \/ MainInitDb
    \/ MainStartServer
    \/ MainStartServerFails

SpecConfig == InitConfig /\ [][NextConfig]_vars

----------------------------------------------------------------------------
(* configuration claims, checked under SpecConfig *)

Loaded == pc \notin {"start", "env", "cli"}

Fields == {<<"database", "url">>, <<"server", "host">>, <<"server", "port">>,
           <<"log", "level">>}

\* the field f of a configuration object
Field(c, f) == Get(Get(c, f[1]), f[2])

\* the file the process was pointed at
ConfigFile == fs[ParseCliArgsOf(argv).configFile.str]

Readable(f) == f.exists /\ f.valid

\* the value the file holds for the field f, undefined when the key is absent
FileValue(f) == IF Readable(ConfigFile) THEN Field(ConfigFile.parsed, f) ELSE Undefined

\* the file supplies f: the key is present with the type the field has
FileSupplies(f) ==
    IF f = <<"server", "port">> THEN IsNumber(FileValue(f)) ELSE IsString(FileValue(f))

\* the value the environment holds for the field f
EnvVar(f) ==
    CASE f = <<"database", "url">> -> env.DB_PATH
      [] f = <<"server", "host">> -> env.HOST
      [] f = <<"server", "port">> -> env.PORT
      [] f = <<"log", "level">> -> env.LOG_LEVEL

EnvSupplies(f) == Truthy(EnvVar(f))

EnvValue(f) ==
    IF f = <<"server", "port">> THEN ParseInt(env.PORT.chars) ELSE EnvVar(f)

\* the value of f from the highest-precedence source that supplies it
ByPrecedence(f) ==
    IF FileSupplies(f) THEN FileValue(f)
    ELSE IF f = <<"database", "url">>
         THEN (IF argv.database = Undefined THEN Str("app.db") ELSE argv.database)
    ELSE IF EnvSupplies(f) THEN EnvValue(f)
    ELSE Field(DEFAULT_CONFIG, f)

\* C1: every field of the resolved configuration has the value of the
\* highest-precedence source (defaults < environment < CLI < file) that
\* supplies it.
C1_Precedence ==
    Loaded => \A f \in Fields : Field(config, f) = ByPrecedence(f)

\* C2: a field that the environment or the config file does not set keeps the
\* value accumulated from the lower-precedence sources, also when a sibling
\* field of the same table is set.
C2_UnsetFieldKept ==
    Loaded =>
        \A f \in Fields :
            /\ ~EnvSupplies(f) =>
                  Field(deepMerge(DEFAULT_CONFIG, envConfig), f)
                      = Field(DEFAULT_CONFIG, f)
            /\ FileValue(f) = Undefined =>
                  Field(config, f) = Field(BeforeFile(envConfig, cliOptions), f)

\* C7: a config file that exists but cannot be parsed is fatal: the process
\* exits with a non-zero code and neither the logger, the database nor the
\* server is initialized; a missing file contributes an empty configuration.
C7_MalformedFileFatal ==
    Loaded =>
        /\ (ConfigFile.exists /\ ~ConfigFile.valid) =>
              /\ exitCode \notin {-1, 0}
              /\ active = Unconfigured /\ db = "null" /\ server = "null"
        /\ ~ConfigFile.exists =>
              config = BeforeFile(envConfig, cliOptions) @@ ("cli" :> cliOptions)

\* C10: the resolved server.port is an integer in 1..65535 and no resolved
\* field is undefined.
C10_PortInRange ==
    Loaded =>
        /\ "num" \in DOMAIN config.server.port
        /\ config.server.port.num \in 1..65535
        /\ \A f \in Fields : Field(config, f) /= Undefined

----------------------------------------------------------------------------
(* logging claims, checked under Spec *)

\* the category paths whose effective level is observed: the paths that are
\* set, a prefix and an extension of one of them, and an unrelated path
ProbePaths ==
    (Categories \ {<<>>}) \cup {<<S_app>>, <<S_app, S_db, S_health>>, <<S_api>>}

\* every configure() call has settled
Settled == pc = "running" /\ pending = <<>>

\* the level the history of setLogLevel calls asks for on the path p
LevelAskedFor(p) ==
    IF p \in DOMAIN lastSet /\ lastSet[p] /= "unset" THEN lastSet[p]
    ELSE currentLogLevel

\* C3: after any sequence of setLogLevel calls the effective minimum level of
\* a category path is the level last set for exactly that path, else the level
\* last set globally.
C3_ExactLevel ==
    Settled => \A p \in ProbePaths : EffectiveLevel(active, p) = LevelAskedFor(p)

\* the level of a level-change request, "" when the request has none
RequestLevel(call) == IF "level" \in DOMAIN call.args THEN call.args.level ELSE ""

\* C4: a level-change request whose level is no valid level changes neither
\* the global level nor a category entry nor the logging configuration.
C4_InvalidLevelRejected ==
    [][(lastCall'.surface /= "none" /\ RequestLevel(lastCall') \notin validLevels)
          => UNCHANGED <<currentLogLevel, categoryLogLevels, active, pending>>]_vars

Last(seq) == seq[Len(seq)]

\* C5: a log call inside nested scopes is emitted with the category of the
\* innermost scope alone, and a log call of the outer scope made after the
\* inner scope has ended with the category of the outer scope.
C5_NestingReplaces ==
    \A i \in 1..Len(emitted) :
        /\ Len(emitted[i].scopes) >= 2 =>
              emitted[i].record.category = Last(emitted[i].scopes)
        /\ emitted[i].record.message = M_graceful =>
              emitted[i].record.category = <<S_app>>

\* C6: a log call made in the extent of one scope is emitted with the path of
\* that scope as its category, at any point after initLogger.
C6_CategoryPropagates ==
    \A i \in 1..Len(emitted) :
        Len(emitted[i].scopes) = 1 =>
            emitted[i].record.category = emitted[i].scopes[1]

\* C8: a successful POST /api/log-level answers with the level previously in
\* effect for its target, the new level and the target (the category path,
\* or "global"); GET /api/log-level answers with the global level.
C8_RouteReply ==
    [][/\ (lastCall'.surface = "POST" /\ reply'.status = 200) =>
            LET body == lastCall'.args
            IN  /\ reply'.body.newLevel = body.level
                /\ "category" \in DOMAIN reply'.body
                /\ IF HasCategory(body)
                   THEN /\ reply'.body.oldLevel = LevelAskedFor(body.category)
                        /\ reply'.body.category = [path |-> body.category]
                   ELSE /\ reply'.body.oldLevel = currentLogLevel
                        /\ reply'.body.category = Str("global")
       /\ (reply'.status = 200 /\ "level" \in DOMAIN reply'.body) =>
            reply'.body.level = currentLogLevel]_vars

----------------------------------------------------------------------------
(* the formatter, checked under SpecFormat: the sink is handed records      *)
(* drawn from FormatRecords                                                 *)

M_hello_text == <<Text(<<"h", "e", "l", "l", "o">>)>>
M_bar == <<Text(<<"a", "|", "b", " ">>), Num(42), Text(<<>>)>>

FormatTimestamps == {0, 999, 90061001, 1999999999}

FormatRecords ==
    [timestamp : FormatTimestamps,
     level : validLevels,
     category : {<<>>, <<S_app>>, <<S_app, S_db>>, <<S_app_db>>, <<S_empty, S_db>>},
     message : {M_hello_text, M_bar, <<>>}]

\* the console sink is called with a record
SinkWrites ==
    /\ Running /\ active.configured
    /\ \E r \in FormatRecords : emitted' = <<[record |-> r, scopes |-> <<>>]>>
    /\ NoRequest
    /\ UNCHANGED <<cfgVars, build, registry, active, server, db, sd>>
    /\ UNCHANGED <<apiVars, txVars>>

NextFormat == MainInitLogger \/ SinkWrites

SpecFormat == Init /\ [][NextFormat]_vars

\* the upper-case names of the levels
UpperName(level) ==
    CASE level = "debug" -> <<"D", "E", "B", "U", "G">>
      [] level = "info" -> <<"I", "N", "F", "O">>
      [] level = "warning" -> <<"W", "A", "R", "N", "I", "N", "G">>
      [] level = "error" -> <<"E", "R", "R", "O", "R">>
      [] level = "fatal" -> <<"F", "A", "T", "A", "L">>

\* the number written in the characters from..to of s
NumberAt(s, from, to) == ReadDigits(SubSeq(s, from, to), 1, 0)

\* the instant an ISO-8601 text of January 1970 denotes, -1 when the text
\* has not the form 1970-01-DDTHH:MM:SS.mmmZ
InstantOf(s) ==
    IF /\ Len(s) = 24
       /\ SubSeq(s, 1, 8) = <<"1", "9", "7", "0", "-", "0", "1", "-">>
       /\ s[11] = "T" /\ s[14] = ":" /\ s[17] = ":" /\ s[20] = "." /\ s[24] = "Z"
       /\ \A i \in {9, 10, 12, 13, 15, 16, 18, 19, 21, 22, 23} : s[i] \in Digits
    THEN (NumberAt(s, 9, 10) - 1) * 86400000 + NumberAt(s, 12, 13) * 3600000
         + NumberAt(s, 15, 16) * 60000 + NumberAt(s, 18, 19) * 1000
         + NumberAt(s, 21, 23)
    ELSE -1

\* the text of a message
Rendered(message) == Concat([i \in 1..Len(message) |-> StringOf(message[i])])

\* line is timestamp|LEVEL|tags|message for the record r: cut at the bars,
\* the first field denotes r's instant, the second is the upper-case level,
\* the third the segments with commas between them or "-" and the rest the
\* message
WellFormed(line, r) ==
    LET fields == Split(line, "|")
    IN  /\ Len(fields) >= 4
        /\ InstantOf(fields[1]) = r.timestamp
        /\ fields[2] = UpperName(r.level)
        /\ IF r.category = <<>> THEN fields[3] = <<"-">>
           ELSE /\ Len(Split(fields[3], ",")) >= Len(r.category)
                /\ fields[3] = Join(r.category, <<",">>)
        /\ Join(SubSeq(fields, 4, Len(fields)), <<"|">>) = Rendered(r.message)

ExampleRecord ==
    [timestamp |-> 90061001, level |-> "info", category |-> <<S_app, S_db>>,
     message |-> M_hello_text]

ExampleLine == <<"1", "9", "7", "0", "-", "0", "1", "-", "0", "2", "T", "0", "1", ":", "0", "1", ":", "0", "1", ".", "0", "0", "1", "Z", "|", "I", "N", "F", "O", "|", "a", "p", "p", ",", "d", "b", "|", "h", "e", "l", "l", "o">>

\* C9: every line the sink writes is <ISO-8601 timestamp>|<LEVEL>|<segments
\* joined by commas, or - for the empty category>|<message>; the record of
\* the example (level info, category [app, db], message hello) gives
\* <ISO(T)>|INFO|app,db|hello.
C9_LineFormat ==
    /\ Len(console) = Len(emitted)
    /\ \A i \in 1..Len(emitted) :
          /\ WellFormed(console[i], emitted[i].record)
          /\ emitted[i].record = ExampleRecord => console[i] = ExampleLine

\* the sink has written the line of the example
C9_Witness ==
    /\ Len(emitted) = 1
    /\ emitted[1].record = ExampleRecord
    /\ console = <<ExampleLine>>

----------------------------------------------------------------------------
(* the registry keys, checked under Spec *)

\* the loggers entries a rebuild from the registry gives for the path p
RebuiltFor(p) ==
    LET loggers == LoggersConfig(currentLogLevel, categoryLogLevels)
    IN  {i \in 2..Len(loggers) : loggers[i].category = p}

\* C13: the registry keeps one entry per distinct category path: a path that
\* setLogLevel was called with has its own entry holding the level last set
\* for it and is rebuilt as exactly that path; a path setLogLevel was never
\* called with has no entry and is not rebuilt.
C13_OneEntryPerPath ==
    \A p \in DOMAIN lastSet :
        IF lastSet[p] /= "unset"
        THEN /\ MapHas(categoryLogLevels, categoryToKey(p))
             /\ MapGet(categoryLogLevels, categoryToKey(p)) = lastSet[p]
             /\ Cardinality(RebuiltFor(p)) = 1
        ELSE /\ ~MapHas(categoryLogLevels, categoryToKey(p))
             /\ RebuiltFor(p) = {}

----------------------------------------------------------------------------
(* shutdown, checked under SpecShutdown *)

\* startup, the routes that change no level, and the signal handlers
NextShutdown ==
    \/ MainInitLogger
    \/ MainInitDb
    \/ MainStartServer
    \/ MainStartServerFails
    \/ Health
    \/ Hello
    \/ GetLogLevel
    \/ \E t \in Tasks : Shutdown(t)
    \/ \E t \in Tasks : StopServerDone(t)
    \/ \E t \in Tasks : ShutdownFinish(t)
    \/ \E t \in Tasks : ShutdownFails(t)

SpecShutdown == Init /\ [][NextShutdown]_vars

\* the log call that reports a graceful shutdown reached the sink
ReportedGraceful ==
    \E i \in 1..Len(emitted) : emitted[i].record.message = M_graceful

\* C12: once the signal handlers are installed the database is closed only
\* after the server has finished closing, the process exits with code 0 only
\* after both, and a failed stop of the server ends the process with code 1
\* and without the report of a graceful shutdown.
C12_OrderedShutdown ==
    /\ (pc = "running" /\ db = "null") => server = "null"
    /\ exitCode = 0 => (server = "null" /\ db = "null")
    /\ \A t \in Tasks : sd[t].pc = "failed" => (exitCode = 1 /\ ~ReportedGraceful)
    /\ ReportedGraceful => exitCode = 0

\* the first shutdown has ended the process with code 0 while the handler of
\* a second signal, arrived during the server close, is still awaiting it
C12_Witness ==
    /\ exitCode = 0 /\ server = "null" /\ db = "null"
    /\ sd[1].pc = "done" /\ sd[2].pc = "closing"

\* a failed stop of the server has ended the process with code 1
C12_WitnessFailed ==
    /\ exitCode = 1 /\ sd[1].pc = "failed" /\ db = "open"

----------------------------------------------------------------------------
(* registry reads against the active configuration, checked under Spec *)

\* initLogger has returned
LoggerReady == pc \in {"logger", "db", "running"}

\* the active configuration is a whole one: the root entry and the entries
\* of one rebuild
WholeConfiguration ==
    /\ active.configured
    /\ Len(active.loggers) >= 1
    /\ active.loggers[1].category = <<>>

\* C11: at every point after initLogger a reader finds a whole configuration,
\* the level getLogLevel reports is the global level the active configuration
\* enforces, and with no reconfiguration pending the active configuration is
\* the one built from the registry.
C11_RegistryAtomic ==
    LoggerReady =>
        /\ WholeConfiguration
        /\ active.loggers[1].lowestLevel = getLogLevel
        /\ pending = <<>> =>
              active.loggers = LoggersConfig(currentLogLevel, categoryLogLevels)

----------------------------------------------------------------------------
(* startServer(), stopServer() and getServer() called by any importer of    *)
(* the server module, in any interleaving.  fastify[i] is the state of the  *)
(* i-th instance createServer() returned: "created", "listening",           *)
(* "closing", "closed", or "failed" when its listen() was rejected.         *)

\* what a step of these calls leaves alone
ApiFrame ==
    /\ NoRequest
    /\ UNCHANGED <<cfgVars, build, registry, active, server, db, sd, txVars>>

\* the port is free for a listen(): port 0 asks for any free port
PortFree ==
    \/ PORT = Num(0)
    \/ \A i \in 1..Len(fastify) : fastify[i] \notin {"listening", "closing"}

\* startServer() up to its await: returns server when it is set, else
\* creates an instance and calls listen()
StartServer(c) ==
    /\ Running /\ apiCalls[c].pc = "idle"
    /\ IF serverInstance /= 0
       THEN /\ apiCalls' = [apiCalls EXCEPT ![c] = [op |-> "startServer", pc |-> "returned",
                                              srv |-> 0, result |-> serverInstance]]
            /\ UNCHANGED fastify
       ELSE /\ fastify' = Append(fastify, "created")
            /\ apiCalls' = [apiCalls EXCEPT ![c] = [op |-> "startServer", pc |-> "listen",
                                              srv |-> Len(fastify) + 1, result |-> 0]]
    /\ NoLogs
    /\ UNCHANGED serverInstance
    /\ ApiFrame

\* await srv.listen() resolves: the two log apiCalls, server = srv, return srv
ListenResolves(c) ==
    /\ Running /\ apiCalls[c].pc = "listen"
    /\ PortFree
    /\ fastify' = [fastify EXCEPT ![apiCalls[c].srv] = "listening"]
    /\ Logs(<<Call(ServerCtx(<<>>), ServerScopes(<<>>), "info", M_listening(HOST, PORT)),
              Call(ServerCtx(<<>>), ServerScopes(<<>>), "info", M_started)>>)
    /\ serverInstance' = apiCalls[c].srv
    /\ apiCalls' = [apiCalls EXCEPT ![c].pc = "returned", ![c].result = apiCalls[c].srv]
    /\ ApiFrame

\* await srv.listen() rejects: the error is logged and thrown again
ListenRejects(c) ==
    /\ Running /\ apiCalls[c].pc = "listen"
    /\ fastify' = [fastify EXCEPT ![apiCalls[c].srv] = "failed"]
    /\ Logs(<<Call(ServerCtx(<<>>), ServerScopes(<<>>), "error", M_startFailed)>>)
    /\ apiCalls' = [apiCalls EXCEPT ![c].pc = "threw"]
    /\ UNCHANGED serverInstance
    /\ ApiFrame

\* stopServer() up to its await: apiCalls close() on server when it is set
StopServer(c) ==
    /\ Running /\ apiCalls[c].pc = "idle"
    /\ IF serverInstance /= 0
       THEN /\ fastify' = [fastify EXCEPT ![serverInstance] =
                              IF @ = "listening" THEN "closing" ELSE @]
            /\ apiCalls' = [apiCalls EXCEPT ![c] = [op |-> "stopServer", pc |-> "close",
                                              srv |-> serverInstance, result |-> 0]]
       ELSE /\ apiCalls' = [apiCalls EXCEPT ![c] = [op |-> "stopServer", pc |-> "returned",
                                              srv |-> 0, result |-> 0]]
            /\ UNCHANGED fastify
    /\ NoLogs
    /\ UNCHANGED serverInstance
    /\ ApiFrame

\* await server.close() resolves: server = null and the log call
CloseResolves(c) ==
    /\ Running /\ apiCalls[c].pc = "close"
    /\ fastify' = [fastify EXCEPT ![apiCalls[c].srv] = "closed"]
    /\ serverInstance' = 0
    /\ Logs(<<Call(ServerCtx(<<>>), ServerScopes(<<>>), "info", M_stopped)>>)
    /\ apiCalls' = [apiCalls EXCEPT ![c].pc = "returned"]
    /\ ApiFrame

\* await server.close() rejects: stopServer throws, server is left set
CloseRejects(c) ==
    /\ Running /\ apiCalls[c].pc = "close"
    /\ apiCalls' = [apiCalls EXCEPT ![c].pc = "threw"]
    /\ NoLogs
    /\ UNCHANGED <<fastify, serverInstance>>
    /\ ApiFrame

\* getServer()
GetServer(c) ==
    /\ Running /\ apiCalls[c].pc = "idle"
    /\ apiCalls' = [apiCalls EXCEPT ![c] = [op |-> "getServer", pc |-> "returned",
                                      srv |-> 0, result |-> serverInstance]]
    /\ NoLogs
    /\ UNCHANGED <<fastify, serverInstance>>
    /\ ApiFrame

\* the server module is imported with PORT unset (3000) or PORT=0
InitServer ==
    /\ env \in [DB_PATH : {Undefined}, HOST : {Undefined},
                PORT : {Undefined, [chars |-> <<"0">>]}, LOG_LEVEL : {Undefined}]
    /\ argv = [config |-> Undefined, database |-> Undefined]
    /\ fs = ("config.toml" :> Missing) @@ ("other.toml" :> Missing)
    /\ pc = "config"
    /\ envConfig = LoadConfigFromEnvOf(env)
    /\ cliOptions = ParseCliArgsOf(argv)
    /\ config = loadFullConfig(LoadConfigFromEnvOf(env), ParseCliArgsOf(argv), fs)
    /\ warned = FALSE
    /\ exitCode = -1
    /\ LoggerInit
    /\ ServerInit

NextServer ==
    \/ \E c \in Callers : StartServer(c)
    \/ \E c \in Callers : ListenResolves(c)
    \/ \E c \in Callers : ListenRejects(c)
    \/ \E c \in Callers : StopServer(c)
    \/ \E c \in Callers : CloseResolves(c)
    \/ \E c \in Callers : CloseRejects(c)
    \/ \E c \in Callers : GetServer(c)

SpecServer == InitServer /\ [][NextServer]_vars

\* the instances that exist and are not closed
Live == {i \in 1..Len(fastify) : fastify[i] \in {"created", "listening", "closing"}}

\* the startServer calls that have returned an instance
Started == {c \in Callers : apiCalls[c].op = "startServer" /\ apiCalls[c].pc = "returned"}

\* C14: at any time at most one instance exists that is not closed, the
\* startServer callers hold the same instance as long as theirs is live, a
\* listening instance is the one server holds, and server (what getServer
\* returns) is null or an instance that listens or is being closed.
C14_Singleton ==
    /\ Cardinality(Live) <= 1
    /\ \A c \in Started, d \in Started :
          (apiCalls[c].result \in Live /\ apiCalls[d].result \in Live)
              => apiCalls[c].result = apiCalls[d].result
    /\ \A i \in 1..Len(fastify) : fastify[i] = "listening" => serverInstance = i
    /\ serverInstance /= 0 => fastify[serverInstance] \in {"listening", "closing"}

----------------------------------------------------------------------------
(* transaction(fn).  sql is the sequence of statements the database has     *)
(* executed, each with the call it belongs to.  fn runs its statements and  *)
(* returns or throws; an fn that returns a promise runs the statements      *)
(* before its first await at once and the rest when it is resumed.          *)

\* the functions passed to transaction: async ones return a promise, fails
\* says whether the work ends in an error
Fns == [async : BOOLEAN, fails : BOOLEAN]

Stmt(k, text) == [by |-> k, stmt |-> text]

\* database.exec(text) in the call k
Exec(log, k, text) == Append(log, Stmt(k, text))

\* getDb() throws
NotInitialized == "Database not initialized. Call initDb() first."

\* transaction(fn) up to the return of the async function: the statements it
\* executes and how its promise stands
transaction(k, fn) ==
    IF db = "null"
    THEN [sql |-> sql,
          tx |-> [pc |-> "rejected", fn |-> fn, result |-> "none",
                  error |-> NotInitialized]]
    ELSE LET begun == Exec(sql, k, "BEGIN")
             worked == Exec(begun, k, "fn")
         IN  IF ~fn.async /\ fn.fails
             THEN [sql |-> Exec(worked, k, "ROLLBACK"),
                   tx |-> [pc |-> "rejected", fn |-> fn, result |-> "none",
                           error |-> "fn"]]
             ELSE [sql |-> Exec(worked, k, "COMMIT"),
                   tx |-> IF fn.async
                          THEN [pc |-> "awaiting", fn |-> fn, result |-> "none",
                                error |-> "none"]
                          ELSE [pc |-> "resolved", fn |-> fn, result |-> "value",
                                error |-> "none"]]

\* what a step of transaction leaves alone
TxFrame ==
    /\ NoLogs /\ NoRequest
    /\ UNCHANGED <<cfgVars, build, registry, active, server, db, sd, apiVars>>

\* transaction(fn) is called
Transaction(k) ==
    /\ Running /\ tx[k].pc = "idle"
    /\ \A u \in Transactions : u < k => tx[u].pc /= "idle"
    /\ \E fn \in Fns :
          /\ sql' = transaction(k, fn).sql
          /\ tx' = [tx EXCEPT ![k] = transaction(k, fn).tx]
    /\ TxFrame

\* the promise fn returned settles: fn's remaining statements have run, and
\* the promise of transaction follows it
FnSettles(k) ==
    /\ Running /\ tx[k].pc = "awaiting"
    /\ sql' = Exec(sql, k, "fn")
    /\ tx' = [tx EXCEPT ![k] =
                 IF tx[k].fn.fails
                 THEN [@ EXCEPT !.pc = "rejected", !.error = "fn"]
                 ELSE [@ EXCEPT !.pc = "resolved", !.result = "value"]]
    /\ TxFrame

\* the database is opened by main at some point
NextTx ==
    \/ MainInitLogger
    \/ MainInitDb
    \/ \E k \in Transactions : Transaction(k)
    \/ \E k \in Transactions : FnSettles(k)

SpecTx == Init /\ [][NextTx]_vars

\* the positions in sql of the statements text of the call k
At(k, text) == {i \in 1..Len(sql) : sql[i] = Stmt(k, text)}

\* C15: a call that found no database issued no statement; a call that
\* issued BEGIN issued exactly one of COMMIT and ROLLBACK after it; COMMIT
\* comes after all of fn's statements and only when fn's work has succeeded,
\* the call then yielding fn's result; ROLLBACK is issued exactly when fn's
\* work has failed, the call then yielding fn's error.
C15_Bracketed ==
    \A k \in Transactions :
        /\ tx[k].error = NotInitialized =>
              \A i \in 1..Len(sql) : sql[i].by /= k
        /\ Cardinality(At(k, "BEGIN")) <= 1
        /\ \A b \in At(k, "BEGIN") :
              /\ Cardinality(At(k, "COMMIT") \cup At(k, "ROLLBACK")) = 1
              /\ \A e \in At(k, "COMMIT") \cup At(k, "ROLLBACK") : b < e
        /\ \A c \in At(k, "COMMIT") :
              /\ \A w \in At(k, "fn") : w < c
              /\ tx[k].pc = "resolved" /\ tx[k].result = "value"
        /\ At(k, "ROLLBACK") /= {} <=> (tx[k].pc = "rejected" /\ tx[k].error = "fn")

====
